---- MODULE Spec2Model ----
(***************************************************************************)
(* Model of charm_json/_main.py: the JSON view of a string databag and the *)
(* live proxy tree (_MutableMapping / _MutableSequence) that writes every  *)
(* nested mutation through to the databag.                                 *)
(*                                                                         *)
(* Python values are tagged records [t |-> <type>, v |-> <payload>].       *)
(* A str is a sequence of one-character strings, a dict is the sequence of *)
(* its entries [k, v] in insertion order, a proxy object is a reference    *)
(* [t |-> "ref", v |-> id] into the heap of proxy objects.                 *)
(***************************************************************************)
EXTENDS Integers, Sequences, FiniteSets, TLC

(* ------------------------------ bounds -------------------------------- *)
\* most proxy objects alive at the end of an operation
MaxNodes == 6
\* most proxy references the caller keeps
MaxHeld == 2
\* longest mapping / sequence a mutation may produce
MaxLen == 3
\* deepest nesting of containers below a databag key
MaxDepth == 3
\* nested _load frames after which the interpreter raises RecursionError
RecursionLimit == MaxDepth + 2
\* most mutating operations in one run
MaxOps == 2
\* most mutating operations in one run of the aliasing scenarios
MaxDeepOps == 3

(* --------------------------- Python values ---------------------------- *)
PyNone == [t |-> "NoneType"]
PyInt(n) == [t |-> "int", v |-> n]
PyBool(b) == [t |-> "bool", v |-> b]
PyStr(s) == [t |-> "str", v |-> s]
PyBytes(s) == [t |-> "bytes", v |-> s]
PyObject == [t |-> "object"]
PyList(items) == [t |-> "list", v |-> items]
PyDict(entries) == [t |-> "dict", v |-> entries]
Entry(k, x) == [k |-> k, v |-> x]
Ref(id) == [t |-> "ref", v |-> id]

\* the parent of a top proxy: the _WriteableDatabag itself
Databag == 0

OK == "ok"

(* ----------------------- dict and list primitives --------------------- *)
\* position of key k in a sequence of entries, 0 when absent
RECURSIVE IndexOfKey(_, _, _)
IndexOfKey(entries, k, i) ==
    IF i > Len(entries) THEN 0
    ELSE IF entries[i].k = k THEN i
    ELSE IndexOfKey(entries, k, i + 1)

HasKey(entries, k) == IndexOfKey(entries, k, 1) # 0

\* dict.__setitem__: an existing key keeps its place, a new key goes last
PutEntry(entries, k, x) ==
    IF HasKey(entries, k)
    THEN [entries EXCEPT ![IndexOfKey(entries, k, 1)].v = x]
    ELSE Append(entries, Entry(k, x))

RemoveAt(s, p) == SubSeq(s, 1, p - 1) \o SubSeq(s, p + 1, Len(s))

InsertAt(s, p, x) == SubSeq(s, 1, p - 1) \o <<x>> \o SubSeq(s, p, Len(s))

\* list index -> position 1..Len, 0 when the index is out of range
ListPos(items, index) ==
    IF index >= 0
    THEN (IF index < Len(items) THEN index + 1 ELSE 0)
    ELSE (IF -index <= Len(items) THEN Len(items) + index + 1 ELSE 0)

\* list.insert clamps the index into 0..len
InsertPos(items, index) ==
    IF index >= 0
    THEN (IF index > Len(items) THEN Len(items) + 1 ELSE index + 1)
    ELSE (IF -index > Len(items) THEN 1 ELSE Len(items) + index + 1)

(* ------------------------------ json ---------------------------------- *)
Quote == "\""
Digits == <<"0", "1", "2", "3", "4", "5", "6", "7", "8", "9">>
DigitSet == {Digits[i] : i \in 1..10}
DigitValue(c) == (CHOOSE i \in 1..10 : Digits[i] = c) - 1

RECURSIVE IntText(_)
IntText(n) ==
    IF n < 10 THEN <<Digits[n + 1]>>
    ELSE IntText(n \div 10) \o <<Digits[(n % 10) + 1]>>

\* what the encoder sees for a value: _Encoder.default unwraps a proxy
\* to its _data, every other unsupported type raises TypeError
Encoder_default(heap, o) ==
    IF o.t = "ref"
    THEN [err |-> OK,
          val |-> IF heap[o.v].kind = "mapping"
                  THEN PyDict(heap[o.v].data) ELSE PyList(heap[o.v].data)]
    ELSE [err |-> "TypeError", val |-> o]

RECURSIVE json_dumps(_, _), DumpItems(_, _, _), DumpEntries(_, _, _)
json_dumps(heap, o) ==
    CASE o.t = "NoneType" -> [err |-> OK, text |-> <<"n", "u", "l", "l">>]
      [] o.t = "bool" ->
            [err |-> OK,
             text |-> IF o.v THEN <<"t", "r", "u", "e">>
                      ELSE <<"f", "a", "l", "s", "e">>]
      [] o.t = "int" -> [err |-> OK, text |-> IntText(o.v)]
      [] o.t = "str" -> [err |-> OK, text |-> <<Quote>> \o o.v \o <<Quote>>]
      [] o.t = "list" -> DumpItems(heap, o.v, 1)
      [] o.t = "dict" -> DumpEntries(heap, o.v, 1)
      [] OTHER ->
            LET d == Encoder_default(heap, o)
            IN IF d.err # OK THEN [err |-> d.err, text |-> <<>>]
               ELSE json_dumps(heap, d.val)

\* text of items[i..] followed by the closing bracket
DumpItems(heap, items, i) ==
    IF i > Len(items)
    THEN [err |-> OK, text |-> IF i = 1 THEN <<"[", "]">> ELSE <<"]">>]
    ELSE LET head == json_dumps(heap, items[i])
             tail == DumpItems(heap, items, i + 1)
         IN IF head.err # OK THEN head
            ELSE IF tail.err # OK THEN tail
            ELSE [err |-> OK,
                  text |-> (IF i = 1 THEN <<"[">> ELSE <<",", " ">>)
                           \o head.text \o tail.text]

DumpEntries(heap, entries, i) ==
    IF i > Len(entries)
    THEN [err |-> OK, text |-> IF i = 1 THEN <<"{", "}">> ELSE <<"}">>]
    ELSE LET head == json_dumps(heap, entries[i].v)
             tail == DumpEntries(heap, entries, i + 1)
         IN IF head.err # OK THEN head
            ELSE IF tail.err # OK THEN tail
            ELSE [err |-> OK,
                  text |-> (IF i = 1 THEN <<"{">> ELSE <<",", " ">>)
                           \o <<Quote>> \o entries[i].k \o <<Quote, ":", " ">>
                           \o head.text \o tail.text]

\* ---- decoder: recursive descent over the characters of the text ----
ParseFail == [ok |-> FALSE, val |-> PyNone, pos |-> 0]
Parsed(x, p) == [ok |-> TRUE, val |-> x, pos |-> p]

RECURSIVE SkipWs(_, _)
SkipWs(s, i) ==
    IF i <= Len(s) /\ s[i] = " " THEN SkipWs(s, i + 1) ELSE i

Literal(s, i, word) ==
    /\ i + Len(word) - 1 <= Len(s)
    /\ SubSeq(s, i, i + Len(word) - 1) = word

RECURSIVE ParseDigits(_, _, _)
ParseDigits(s, i, acc) ==
    IF i <= Len(s) /\ s[i] \in DigitSet
    THEN ParseDigits(s, i + 1, acc * 10 + DigitValue(s[i]))
    ELSE Parsed(PyInt(acc), i)

\* index of the closing quote at or after i, 0 when there is none
RECURSIVE FindQuote(_, _)
FindQuote(s, i) ==
    IF i > Len(s) THEN 0
    ELSE IF s[i] = Quote THEN i
    ELSE FindQuote(s, i + 1)

ParseString(s, i) ==
    LET q == FindQuote(s, i + 1)
    IN IF q = 0 THEN ParseFail
       ELSE Parsed(PyStr(SubSeq(s, i + 1, q - 1)), q + 1)

RECURSIVE ParseValue(_, _), ParseItems(_, _, _), ParseEntries(_, _, _)
ParseValue(s, i0) ==
    LET i == SkipWs(s, i0)
    IN IF i > Len(s) THEN ParseFail
       ELSE CASE s[i] = "n" ->
                    IF Literal(s, i, <<"n", "u", "l", "l">>)
                    THEN Parsed(PyNone, i + 4) ELSE ParseFail
              [] s[i] = "t" ->
                    IF Literal(s, i, <<"t", "r", "u", "e">>)
                    THEN Parsed(PyBool(TRUE), i + 4) ELSE ParseFail
              [] s[i] = "f" ->
                    IF Literal(s, i, <<"f", "a", "l", "s", "e">>)
                    THEN Parsed(PyBool(FALSE), i + 5) ELSE ParseFail
              [] s[i] \in DigitSet -> ParseDigits(s, i, 0)
              [] s[i] = Quote -> ParseString(s, i)
              [] s[i] = "[" ->
                    LET j == SkipWs(s, i + 1)
                    IN IF j <= Len(s) /\ s[j] = "]"
                       THEN Parsed(PyList(<<>>), j + 1)
                       ELSE ParseItems(s, j, <<>>)
              [] s[i] = "{" ->
                    LET j == SkipWs(s, i + 1)
                    IN IF j <= Len(s) /\ s[j] = "}"
                       THEN Parsed(PyDict(<<>>), j + 1)
                       ELSE ParseEntries(s, j, <<>>)
              [] OTHER -> ParseFail

\* one item at i, then "," and more items or the closing "]"
ParseItems(s, i, acc) ==
    LET r == ParseValue(s, i)
        j == SkipWs(s, r.pos)
    IN IF ~r.ok \/ j > Len(s) THEN ParseFail
       ELSE IF s[j] = "]" THEN Parsed(PyList(Append(acc, r.val)), j + 1)
       ELSE IF s[j] = "," THEN ParseItems(s, j + 1, Append(acc, r.val))
       ELSE ParseFail

\* one "key": value at i, then "," and more entries or the closing "}"
ParseEntries(s, i0, acc) ==
    LET i == SkipWs(s, i0)
        k == IF i <= Len(s) /\ s[i] = Quote THEN ParseString(s, i) ELSE ParseFail
        c == SkipWs(s, k.pos)
        r == IF k.ok /\ c <= Len(s) /\ s[c] = ":"
             THEN ParseValue(s, c + 1) ELSE ParseFail
        j == SkipWs(s, r.pos)
    IN IF ~r.ok \/ j > Len(s) THEN ParseFail
       ELSE IF s[j] = "}"
            THEN Parsed(PyDict(PutEntry(acc, k.val.v, r.val)), j + 1)
       ELSE IF s[j] = ","
            THEN ParseEntries(s, j + 1, PutEntry(acc, k.val.v, r.val))
       ELSE ParseFail

json_loads(s) ==
    LET r == ParseValue(s, 1)
    IN IF r.ok /\ SkipWs(s, r.pos) > Len(s)
       THEN [err |-> OK, val |-> r.val]
       ELSE [err |-> "JSONDecodeError", val |-> PyNone]

(* ------------------------- the builder, _load ------------------------- *)
\* a databag key, as the parent_key of a top proxy
BagKey(k) == [t |-> "bagkey", v |-> k]

\* isinstance(data, collections.abc.Mapping)
IsMapping(heap, data) ==
    \/ data.t = "dict"
    \/ (data.t = "ref" /\ heap[data.v].kind = "mapping")

\* isinstance(data, collections.abc.Sequence): str and bytes are Sequences
IsSequence(heap, data) ==
    \/ data.t \in {"list", "str", "bytes"}
    \/ (data.t = "ref" /\ heap[data.v].kind = "sequence")

\* isinstance(data, (str, int, float, bool)) or data is None
IsScalar(data) == data.t \in {"str", "int", "float", "bool", "NoneType"}

\* dict(data): the entries of a dict, or of a proxy through keys()/__getitem__
dict(heap, data) == IF data.t = "ref" THEN heap[data.v].data ELSE data.v

\* the one-character strings of a str, the integers of a bytes
RECURSIVE StrItems(_), BytesItems(_)
StrItems(s) ==
    IF s = <<>> THEN <<>> ELSE <<PyStr(<<Head(s)>>)>> \o StrItems(Tail(s))

BytesItems(s) ==
    IF s = <<>> THEN <<>> ELSE <<PyInt(Head(s))>> \o BytesItems(Tail(s))

\* list(data): iterating a str or a bytes yields its elements
list(heap, data) ==
    CASE data.t = "ref" -> heap[data.v].data
      [] data.t = "str" -> StrItems(data.v)
      [] data.t = "bytes" -> BytesItems(data.v)
      [] OTHER -> data.v

\* the identity of a newly created object
NewId(heap) == CHOOSE i \in 1..(Cardinality(DOMAIN heap) + 1) :
                  /\ i \notin DOMAIN heap
                  /\ \A j \in 1..(i - 1) : j \in DOMAIN heap

MutableMapping_init(parent, parent_key, entries) ==
    [kind |-> "mapping", parent |-> parent, parent_key |-> parent_key,
     data |-> entries]

MutableSequence_init(parent, parent_key, items) ==
    [kind |-> "sequence", parent |-> parent, parent_key |-> parent_key,
     data |-> items]

Loaded(err, heap, val, calls) ==
    [err |-> err, heap |-> heap, val |-> val, calls |-> calls]

\* the key or index of slot i of a proxy, as _load passes it on
SlotKey(node, i) ==
    IF node.kind = "mapping" THEN PyStr(node.data[i].k) ELSE PyInt(i - 1)

SlotValue(node, i) ==
    IF node.kind = "mapping" THEN node.data[i].v ELSE node.data[i]

SetSlot(node, i, x) ==
    IF node.kind = "mapping"
    THEN [node EXCEPT !.data[i].v = x]
    ELSE [node EXCEPT !.data[i] = x]

RECURSIVE _load(_, _, _, _, _), Populate(_, _, _, _, _)
\* depth counts the nested _load frames; calls counts the _load calls made
_load(heap, parent, parent_key, data, depth) ==
    IF depth > RecursionLimit
    THEN Loaded("RecursionError", heap, data, 1)
    ELSE IF IsMapping(heap, data)
    THEN LET mapping == NewId(heap)
         IN Populate(heap @@ (mapping :> MutableMapping_init(
                                  parent, parent_key, dict(heap, data))),
                     mapping, 1, depth, 1)
    ELSE IF IsSequence(heap, data)
    THEN LET sequence == NewId(heap)
         IN Populate(heap @@ (sequence :> MutableSequence_init(
                                  parent, parent_key, list(heap, data))),
                     sequence, 1, depth, 1)
    ELSE IF IsScalar(data)
    THEN Loaded(OK, heap, data, 1)
    ELSE Loaded("TypeError", heap, data, 1)

\* the loop of _load over the slots i.. of the new proxy; the loaded value
\* goes into _data directly, without notifying the parent
Populate(heap, id, i, depth, calls) ==
    IF i > Len(heap[id].data)
    THEN Loaded(OK, heap, Ref(id), calls)
    ELSE LET value == _load(heap, id, SlotKey(heap[id], i),
                            SlotValue(heap[id], i), depth + 1)
         IN IF value.err # OK
            THEN Loaded(value.err, heap, value.val, calls + value.calls)
            ELSE Populate([value.heap EXCEPT ![id] = SetSlot(@, i, value.val)],
                          id, i + 1, depth, calls + value.calls)

(* ------------------------- _WriteableDatabag -------------------------- *)
\* keys set by Juju, not JSON-encoded
EXCLUDED_KEYS == {"egress-subnets", "ingress-address", "private-address"}

\* the outcome of an operation: the exception raised (or OK), the heap and
\* the databag it leaves, the databag writes it made, the _load calls it
\* made, and the objects whose __setitem__ it called to notify them
Outcome(err, heap, databag, writes, calls, chain) ==
    [err |-> err, heap |-> heap, databag |-> databag, writes |-> writes,
     calls |-> calls, chain |-> chain]

\* a store that keeps what a key already holds: the first write wins
Store_first_write_wins(databag, key, text) ==
    [k \in DOMAIN databag \cup {key} |->
        IF k \in DOMAIN databag THEN databag[k] ELSE text]

\* self._databag[key] = text
Store(databag, key, text) ==
    [k \in DOMAIN databag \cup {key} |-> IF k = key THEN text ELSE databag[k]]

\* a __setitem__ without the isinstance check of the excluded keys
WriteableDatabag_setitem_unchecked(heap, databag, key, value) ==
    LET encoded == json_dumps(heap, value)
    IN IF encoded.err # OK
       THEN Outcome(encoded.err, heap, databag, 0, 0, <<>>)
       ELSE Outcome(OK, heap, Store(databag, key, encoded.text), 1, 0, <<>>)

WriteableDatabag_setitem(heap, databag, key, value) ==
    IF key \in EXCLUDED_KEYS /\ value.t # "str"
    THEN Outcome("TypeError", heap, databag, 0, 0, <<>>)
    ELSE LET raw == IF key \in EXCLUDED_KEYS
                    THEN Store(databag, key, value.v) ELSE databag
             w == IF key \in EXCLUDED_KEYS THEN 1 ELSE 0
             encoded == json_dumps(heap, value)
         IN IF encoded.err # OK
            THEN Outcome(encoded.err, heap, raw, w, 0, <<>>)
            ELSE Outcome(OK, heap, Store(raw, key, encoded.text), w + 1, 0, <<>>)

WriteableDatabag_delitem(heap, databag, key) ==
    IF key \notin DOMAIN databag
    THEN Outcome("KeyError", heap, databag, 0, 0, <<>>)
    ELSE Outcome(OK, heap, [k \in DOMAIN databag \ {key} |-> databag[k]],
                 1, 0, <<>>)

\* what __getitem__ leaves: the value built and the databag after it
Fetched(loaded, databag, writes) ==
    [err |-> loaded.err, heap |-> loaded.heap, val |-> loaded.val,
     calls |-> loaded.calls, databag |-> databag, writes |-> writes]

\* a __getitem__ whose build notifies the databag, as a mutation does
WriteableDatabag_getitem_notifying(heap, databag, key) ==
    IF key \notin DOMAIN databag
    THEN Fetched(Loaded("KeyError", heap, PyNone, 0), databag, 0)
    ELSE IF key \in EXCLUDED_KEYS
    THEN Fetched(Loaded(OK, heap, PyStr(databag[key]), 0), databag, 0)
    ELSE LET decoded == json_loads(databag[key])
             built == _load(heap, Databag, BagKey(key), decoded.val, 1)
             o == WriteableDatabag_setitem(built.heap, databag, key, built.val)
         IN IF decoded.err # OK
            THEN Fetched(Loaded(decoded.err, heap, PyNone, 0), databag, 0)
            ELSE IF built.err # OK
            THEN Fetched(built, databag, 0)
            ELSE Fetched(built, o.databag, o.writes)

\* the value returned is in .val: a raw str for an excluded key, else the
\* tree built by _load with the databag as parent; nothing is assigned to
\* self._databag
WriteableDatabag_getitem(heap, databag, key) ==
    IF key \notin DOMAIN databag
    THEN Fetched(Loaded("KeyError", heap, PyNone, 0), databag, 0)
    ELSE IF key \in EXCLUDED_KEYS
    THEN Fetched(Loaded(OK, heap, PyStr(databag[key]), 0), databag, 0)
    ELSE LET decoded == json_loads(databag[key])
         IN IF decoded.err # OK
            THEN Fetched(Loaded(decoded.err, heap, PyNone, 0), databag, 0)
            ELSE Fetched(_load(heap, Databag, BagKey(key), decoded.val, 1),
                         databag, 0)

(* ---------------- _MutableMapping and _MutableSequence ---------------- *)
\* what follows a call made by self: the callee is added to the chain
After(first, rest, callee) ==
    Outcome(rest.err, rest.heap, rest.databag, rest.writes,
            first.calls + rest.calls, <<callee>> \o rest.chain)

Raise(err, heap, databag, calls) == Outcome(err, heap, databag, 0, calls, <<>>)

\* parent[parent_key] = value, dispatched on what the parent is
RECURSIVE setitem(_, _, _, _, _)

\* self._parent[self._parent_key] = self; self is taken from the heap
\* before the mutation, its _parent and _parent_key are not touched by it
Notify(before, after, databag, self, loaded) ==
    After(loaded,
          setitem(after, databag, before[self].parent,
                  before[self].parent_key, Ref(self)),
          before[self].parent)

\* a __setitem__ that stores the value and does not notify the parent
MutableMapping_setitem_silent(heap, databag, self, key, value) ==
    LET loaded == _load(heap, self, key, value, 1)
    IN IF loaded.err # OK
       THEN Raise(loaded.err, heap, databag, loaded.calls)
       ELSE Outcome(OK,
                    [loaded.heap EXCEPT
                        ![self].data = PutEntry(@, key.v, loaded.val)],
                    databag, 0, loaded.calls, <<>>)

MutableMapping_setitem(heap, databag, self, key, value) ==
    LET loaded == _load(heap, self, key, value, 1)
    IN IF loaded.err # OK
       THEN Raise(loaded.err, heap, databag, loaded.calls)
       ELSE Notify(heap,
                   [loaded.heap EXCEPT
                       ![self].data = PutEntry(@, key.v, loaded.val)],
                   databag, self, loaded)

MutableMapping_delitem(heap, databag, self, key) ==
    IF ~HasKey(heap[self].data, key.v)
    THEN Raise("KeyError", heap, databag, 0)
    ELSE Notify(heap,
                [heap EXCEPT ![self].data =
                    RemoveAt(@, IndexOfKey(@, key.v, 1))],
                databag, self, Loaded(OK, heap, PyNone, 0))

\* a __setitem__ that stores the value and does not notify the parent
MutableSequence_setitem_silent(heap, databag, self, key, value) ==
    LET loaded == _load(heap, self, key, value, 1)
        p == ListPos(heap[self].data, key.v)
    IN IF loaded.err # OK
       THEN Raise(loaded.err, heap, databag, loaded.calls)
       ELSE IF p = 0
       THEN Raise("IndexError", heap, databag, loaded.calls)
       ELSE Outcome(OK, [loaded.heap EXCEPT ![self].data[p] = loaded.val],
                    databag, 0, loaded.calls, <<>>)

MutableSequence_setitem(heap, databag, self, key, value) ==
    LET loaded == _load(heap, self, key, value, 1)
        p == ListPos(heap[self].data, key.v)
    IN IF loaded.err # OK
       THEN Raise(loaded.err, heap, databag, loaded.calls)
       ELSE IF p = 0
       THEN Raise("IndexError", heap, databag, loaded.calls)
       ELSE Notify(heap, [loaded.heap EXCEPT ![self].data[p] = loaded.val],
                   databag, self, loaded)

\* a __delitem__ that takes a missing index for done and notifies the parent
MutableSequence_delitem_lenient(heap, databag, self, key) ==
    LET p == ListPos(heap[self].data, key.v)
    IN Notify(heap,
              IF p = 0 THEN heap ELSE [heap EXCEPT ![self].data = RemoveAt(@, p)],
              databag, self, Loaded(OK, heap, PyNone, 0))

MutableSequence_delitem(heap, databag, self, key) ==
    LET p == ListPos(heap[self].data, key.v)
    IN IF p = 0
       THEN Raise("IndexError", heap, databag, 0)
       ELSE Notify(heap, [heap EXCEPT ![self].data = RemoveAt(@, p)],
                   databag, self, Loaded(OK, heap, PyNone, 0))

\* the loop of insert: every proxy element gets its position as _parent_key
Renumber(heap, self) ==
    [id \in DOMAIN heap |->
        IF \E p \in 1..Len(heap[self].data) : heap[self].data[p] = Ref(id)
        THEN [heap[id] EXCEPT !.parent_key =
                 PyInt((CHOOSE p \in 1..Len(heap[self].data) :
                           heap[self].data[p] = Ref(id)) - 1)]
        ELSE heap[id]]

\* an insert that makes room in _data before the value is classified
MutableSequence_insert_eager(heap, databag, self, index, value) ==
    LET loaded == _load(heap, self, index, value, 1)
        room == [heap EXCEPT ![self].data =
                    InsertAt(@, InsertPos(@, index.v), PyNone)]
    IN IF loaded.err # OK
       THEN Raise(loaded.err, room, databag, loaded.calls)
       ELSE Notify(heap,
                   Renumber([loaded.heap EXCEPT ![self].data =
                                InsertAt(@, InsertPos(@, index.v), loaded.val)],
                            self),
                   databag, self, loaded)

MutableSequence_insert(heap, databag, self, index, value) ==
    LET loaded == _load(heap, self, index, value, 1)
    IN IF loaded.err # OK
       THEN Raise(loaded.err, heap, databag, loaded.calls)
       ELSE Notify(heap,
                   Renumber([loaded.heap EXCEPT ![self].data =
                                InsertAt(@, InsertPos(@, index.v), loaded.val)],
                            self),
                   databag, self, loaded)

setitem(heap, databag, target, key, value) ==
    IF target = Databag
    THEN WriteableDatabag_setitem(heap, databag, key.v, value)
    ELSE IF heap[target].kind = "mapping"
    THEN MutableMapping_setitem(heap, databag, target, key, value)
    ELSE MutableSequence_setitem(heap, databag, target, key, value)

(* --------------------------- reading a tree --------------------------- *)
\* _MutableMapping.__getitem__ / _MutableSequence.__getitem__
Proxy_getitem(heap, self, key) ==
    IF heap[self].kind = "mapping"
    THEN (IF HasKey(heap[self].data, key.v)
          THEN [err |-> OK,
                val |-> heap[self].data[IndexOfKey(heap[self].data, key.v, 1)].v]
          ELSE [err |-> "KeyError", val |-> PyNone])
    ELSE (IF ListPos(heap[self].data, key.v) # 0
          THEN [err |-> OK,
                val |-> heap[self].data[ListPos(heap[self].data, key.v)]]
          ELSE [err |-> "IndexError", val |-> PyNone])

\* the plain content of a value: proxies replaced by dicts and lists
RECURSIVE Plain(_, _), PlainItems(_, _), PlainEntries(_, _)
Plain(heap, x) ==
    CASE x.t = "ref" ->
            IF heap[x.v].kind = "mapping"
            THEN PyDict(PlainEntries(heap, heap[x.v].data))
            ELSE PyList(PlainItems(heap, heap[x.v].data))
      [] x.t = "dict" -> PyDict(PlainEntries(heap, x.v))
      [] x.t = "list" -> PyList(PlainItems(heap, x.v))
      [] OTHER -> x

PlainItems(heap, items) ==
    IF items = <<>> THEN <<>>
    ELSE <<Plain(heap, Head(items))>> \o PlainItems(heap, Tail(items))

PlainEntries(heap, entries) ==
    IF entries = <<>> THEN <<>>
    ELSE <<Entry(Head(entries).k, Plain(heap, Head(entries).v))>>
         \o PlainEntries(heap, Tail(entries))

\* the proxies a value refers to directly
RefsOf(node) ==
    {node.data[i].v.v : i \in {j \in 1..Len(node.data) :
        node.kind = "mapping" /\ node.data[j].v.t = "ref"}}
    \cup
    {node.data[i].v : i \in {j \in 1..Len(node.data) :
        node.kind = "sequence" /\ node.data[j].t = "ref"}}

\* the objects kept alive by the references the caller holds: a proxy
\* refers to its parent and to the proxies in its _data
RECURSIVE Alive(_, _)
Alive(heap, ids) ==
    LET more == ids \cup {heap[i].parent : i \in ids} \cup
                UNION {RefsOf(heap[i]) : i \in ids}
        next == more \ {Databag}
    IN IF next = ids THEN ids ELSE Alive(heap, next)

\* garbage collection: objects nothing refers to are gone
Collect(heap, ids) == [i \in Alive(heap, ids) |-> heap[i]]

\* the top proxy of the tree self reports to, and the links up to it
RECURSIVE TopOf(_, _), Level(_, _)
TopOf(heap, self) ==
    IF heap[self].parent = Databag THEN self ELSE TopOf(heap, heap[self].parent)

Level(heap, self) ==
    IF heap[self].parent = Databag THEN 1 ELSE 1 + Level(heap, heap[self].parent)

RECURSIVE Nesting(_)
Nesting(x) ==
    CASE x.t = "dict" ->
            1 + (IF x.v = <<>> THEN 0 ELSE
                 LET d == {Nesting(x.v[i].v) : i \in 1..Len(x.v)}
                 IN CHOOSE m \in d : \A n \in d : n <= m)
      [] x.t = "list" ->
            1 + (IF x.v = <<>> THEN 0 ELSE
                 LET d == {Nesting(x.v[i]) : i \in 1..Len(x.v)}
                 IN CHOOSE m \in d : \A n \in d : n <= m)
      [] OTHER -> 0

(* ------------------------------ inputs -------------------------------- *)
KeyA == <<"a">>
KeyB == <<"b">>
BagKeys == {"cfg", "private-address"}

NestedMapping == PyDict(<<Entry(KeyA, PyDict(<<Entry(KeyB, PyInt(1))>>))>>)
MappingOfList == PyDict(<<Entry(KeyA, PyList(<<PyInt(1), PyInt(2)>>))>>)
ListOfLists == PyList(<<PyList(<<PyInt(1)>>), PyList(<<PyInt(2)>>)>>)
WithEmptyStr == PyDict(<<Entry(KeyA, PyStr(<<>>)), Entry(KeyB, PyInt(1))>>)
ThreeLevels ==
    PyDict(<<Entry(KeyA, PyList(<<PyDict(<<Entry(KeyB, PyInt(1))>>)>>))>>)

\* values a databag may hold when the program starts
StoredValues == {NestedMapping, MappingOfList, ListOfLists, WithEmptyStr}

\* values the caller passes to set on the databag
SetValues ==
    { MappingOfList, PyStr(<<>>), PyStr(<<"x">>), PyInt(7), PyObject,
      PyList(<<PyBytes(<<1>>)>>) }

\* values the caller passes to set and insert on a proxy
NodeValues ==
    { PyInt(5), PyStr(<<>>), PyStr(<<"x">>), PyList(<<PyInt(3)>>),
      PyObject, PyBytes(<<1>>), PyList(<<PyObject>>) }

\* the values of the aliasing scenarios
DeepValues == {PyInt(5), PyList(<<PyInt(3)>>)}

\* the values of the deep scenarios
NestedValues == DeepValues \cup {PyList(<<PyList(<<PyInt(3)>>)>>)}

MapKeys == {PyStr(KeyA), PyStr(KeyB)}
Indexes(items) == {PyInt(i) : i \in -1..Len(items)}
KeysFor(node) == IF node.kind = "mapping" THEN MapKeys ELSE Indexes(node.data)

(* ------------------------------ state --------------------------------- *)
\* databag: the string databag behind the _WriteableDatabag
\* heap:    the proxy objects that exist, by identity
\* held:    the proxies the caller has a reference to
\* fresh:   the top proxies whose tree and databag key are as get left them
\* last:    the operation just made and how it ended
\* ops:     the mutating operations made so far
\* planted: the proxies built for the mappings and sequences the caller
\*          passed to set and insert of a proxy
\* copies:  the pairs <<n, c>> of proxies where c is the proxy the parent
\*          of n built from n and stored in the slot of n when n notified it
VARIABLES databag, heap, held, fresh, last, ops, planted, copies
vars == <<databag, heap, held, fresh, last, ops, planted, copies>>

Done(op, err, node, key, value, result, writes, calls, chain) ==
    [op |-> op, err |-> err, node |-> node, key |-> key, value |-> value,
     result |-> result, writes |-> writes, calls |-> calls, chain |-> chain]

Nothing == Done("none", OK, 0, PyNone, PyNone, PyNone, 0, 0, <<>>)

HostBag == ("private-address" :> <<"h">>)

InitWith(values) ==
    /\ databag \in
         {HostBag} \cup
         {HostBag @@ ("cfg" :> json_dumps(<<>>, x).text) : x \in values}
    /\ heap = <<>>
    /\ held = {}
    /\ fresh = {}
    /\ last = Nothing
    /\ ops = 0
    /\ planted = {}
    /\ copies = {}

Init == InitWith(StoredValues)

(* ----------------------------- operations ----------------------------- *)
\* bag[key] = value
Set(key, value) ==
    LET o == WriteableDatabag_setitem(heap, databag, key, value)
    IN /\ databag' = o.databag
       /\ fresh' = IF o.writes > 0 THEN {} ELSE fresh
       /\ last' = Done("bag_set", o.err, Databag, BagKey(key), value, PyNone,
                       o.writes, o.calls, o.chain)
       /\ UNCHANGED <<heap, held, planted, copies>>

\* del bag[key]
Delete(key) ==
    LET o == WriteableDatabag_delitem(heap, databag, key)
    IN /\ databag' = o.databag
       /\ fresh' = IF o.writes > 0 THEN {} ELSE fresh
       /\ last' = Done("bag_del", o.err, Databag, BagKey(key), PyNone, PyNone,
                       o.writes, o.calls, o.chain)
       /\ UNCHANGED <<heap, held, planted, copies>>

\* tree = bag[key]; the caller keeps the proxy it gets
Get(key) ==
    LET r == WriteableDatabag_getitem(heap, databag, key)
        kept == IF r.err = OK /\ r.val.t = "ref" THEN {r.val.v} ELSE {}
    IN /\ Cardinality(held) < MaxHeld
       /\ held' = held \cup kept
       /\ heap' = IF kept = {} THEN heap ELSE Collect(r.heap, held')
       /\ Cardinality(DOMAIN heap') <= MaxNodes
       /\ fresh' = fresh \cup kept
       /\ databag' = r.databag
       /\ last' = Done("get", r.err, Databag, BagKey(key), PyNone,
                       IF r.err = OK THEN r.val ELSE PyNone,
                       r.writes, r.calls, <<>>)
       /\ UNCHANGED <<ops, planted, copies>>

\* child = self[key]; the caller keeps the proxy it gets
Lookup(self, key) ==
    LET r == Proxy_getitem(heap, self, key)
    IN /\ r.err = OK
       /\ r.val.t = "ref"
       /\ r.val.v \notin held
       /\ Cardinality(held) < MaxHeld
       /\ held' = held \cup {r.val.v}
       /\ last' = Done("lookup", OK, self, key, PyNone, r.val, 0, 0, <<>>)
       /\ UNCHANGED <<databag, heap, fresh, ops, planted, copies>>

\* node = node[key]; the caller keeps the proxy it gets in place of self
Descend(self, key) ==
    LET r == Proxy_getitem(heap, self, key)
    IN /\ r.err = OK
       /\ r.val.t = "ref"
       /\ r.val.v \notin held
       /\ held' = (held \ {self}) \cup {r.val.v}
       /\ heap' = Collect(heap, held')
       /\ planted' = planted \cap DOMAIN heap'
       /\ copies' = copies \cap ((DOMAIN heap') \X (DOMAIN heap'))
       /\ last' = Done("lookup", OK, self, key, PyNone, r.val, 0, 0, <<>>)
       /\ UNCHANGED <<databag, fresh, ops>>

\* the proxies reachable from the given ones through _data
RECURSIVE Below(_, _)
Below(h, ids) ==
    LET more == ids \cup UNION {RefsOf(h[i]) : i \in ids}
    IN IF more = ids THEN ids ELSE Below(h, more)

\* the proxies _load has built for the mapping or sequence just stored in
\* self by set or insert: the one in the slot and those in its _data
Planted(op, self, key, value, o) ==
    LET items == o.heap[self].data
        stored == self \in DOMAIN o.heap /\ o.err = OK
                  /\ op \in {"set", "insert"} /\ value.t \in {"list", "dict"}
        slot == IF op = "set" THEN Proxy_getitem(o.heap, self, key).val
                ELSE items[InsertPos(Tail(items), key.v)]
    IN IF stored THEN Below(o.heap, {slot.v}) ELSE {}

\* self and the proxies its notifications go up through
RECURSIVE Chain(_, _)
Chain(h, self) ==
    IF h[self].parent = Databag THEN {self}
    ELSE {self} \cup Chain(h, h[self].parent)

\* the proxies built from a proxy by _load in the __setitem__ of its parent:
\* each proxy n on the way up from self, with what its slot holds afterwards
Copied(self, o) ==
    IF o.err # OK THEN {}
    ELSE {<<n, Proxy_getitem(o.heap, o.heap[n].parent,
                             o.heap[n].parent_key).val.v>> :
             n \in {m \in Chain(o.heap, self) : o.heap[m].parent # Databag}}

\* what a mutating operation of a proxy leaves; objects nothing refers to
\* any more are collected
Mutated(op, self, key, value, o) ==
    /\ databag' = o.databag
    /\ heap' = Collect(o.heap, held)
    /\ planted' = (planted \cup Planted(op, self, key, value, o))
                     \cap DOMAIN heap'
    /\ copies' = (copies \cup Copied(self, o))
                    \cap ((DOMAIN heap') \X (DOMAIN heap'))
    /\ Cardinality(DOMAIN heap') <= MaxNodes
    /\ fresh' = {}
    /\ last' = Done(op, o.err, self, key, value, PyNone,
                    o.writes, o.calls, o.chain)
    /\ UNCHANGED held

Fits(self, value) == Level(heap, self) + Nesting(value) <= MaxDepth

\* self[key] = value
NodeSet(self, key, value) ==
    /\ Fits(self, value)
    /\ Len(heap[self].data) < MaxLen \/ Proxy_getitem(heap, self, key).err = OK
    /\ Mutated("set", self, key, value,
               IF heap[self].kind = "mapping"
               THEN MutableMapping_setitem(heap, databag, self, key, value)
               ELSE MutableSequence_setitem(heap, databag, self, key, value))

\* del self[key]
NodeDelete(self, key) ==
    Mutated("delete", self, key, PyNone,
            IF heap[self].kind = "mapping"
            THEN MutableMapping_delitem(heap, databag, self, key)
            ELSE MutableSequence_delitem(heap, databag, self, key))

\* self.insert(index, value); append(value) is insert(len(self), value)
NodeInsert(self, index, value) ==
    /\ heap[self].kind = "sequence"
    /\ Fits(self, value)
    /\ Len(heap[self].data) < MaxLen
    /\ Mutated("insert", self, index, value,
               MutableSequence_insert(heap, databag, self, index, value))

\* one more mutating operation, while the run may make one
Budget(limit) == ops < limit /\ ops' = ops + 1

Next ==
    \/ \E key \in BagKeys, value \in SetValues :
          Budget(MaxOps) /\ Set(key, value)
    \/ \E key \in BagKeys : Budget(MaxOps) /\ Delete(key)
    \/ \E key \in BagKeys : Get(key)
    \/ \E self \in held : \E key \in KeysFor(heap[self]) : Lookup(self, key)
    \/ \E self \in held : \E key \in KeysFor(heap[self]), value \in NodeValues :
          Budget(MaxOps) /\ NodeSet(self, key, value)
    \/ \E self \in held : \E key \in KeysFor(heap[self]) :
          Budget(MaxOps) /\ NodeDelete(self, key)
    \/ \E self \in held : \E index \in Indexes(heap[self].data),
                             value \in NodeValues :
          Budget(MaxOps) /\ NodeInsert(self, index, value)

Spec == Init /\ [][Next]_vars

\* the aliasing scenarios: longer runs over one tree, with few values
InitDeep == InitWith({ListOfLists})

NextDeep ==
    \/ \E key \in BagKeys : Get(key)
    \/ \E self \in held : \E key \in KeysFor(heap[self]) : Lookup(self, key)
    \/ \E self \in held : \E key \in KeysFor(heap[self]), value \in DeepValues :
          Budget(MaxDeepOps) /\ NodeSet(self, key, value)
    \/ \E self \in held : \E key \in KeysFor(heap[self]) :
          Budget(MaxDeepOps) /\ NodeDelete(self, key)
    \/ \E self \in held : \E index \in Indexes(heap[self].data),
                             value \in DeepValues :
          Budget(MaxDeepOps) /\ NodeInsert(self, index, value)

SpecDeep == InitDeep /\ [][NextDeep]_vars

\* the deep scenarios: runs over a tree with proxies three levels deep
InitNested == InitWith({ThreeLevels})

NextNested ==
    \/ \E key \in BagKeys : Get(key)
    \/ \E self \in held : \E key \in KeysFor(heap[self]) : Lookup(self, key)
    \/ \E self \in held : \E key \in KeysFor(heap[self]) : Descend(self, key)
    \/ \E self \in held : \E key \in KeysFor(heap[self]), value \in NestedValues :
          Budget(MaxDeepOps) /\ NodeSet(self, key, value)
    \/ \E self \in held : \E key \in KeysFor(heap[self]) :
          Budget(MaxDeepOps) /\ NodeDelete(self, key)
    \/ \E self \in held : \E index \in Indexes(heap[self].data),
                             value \in NestedValues :
          Budget(MaxDeepOps) /\ NodeInsert(self, index, value)

SpecNested == InitNested /\ [][NextNested]_vars

(* ------------------- what the claims are stated with ------------------ *)
Mutations == {"set", "delete", "insert"}

\* a value a JSON decoder can produce
RECURSIVE IsJSON(_)
IsJSON(x) ==
    CASE x.t \in {"str", "int", "bool", "NoneType"} -> TRUE
      [] x.t = "list" -> \A i \in 1..Len(x.v) : IsJSON(x.v[i])
      [] x.t = "dict" -> \A i \in 1..Len(x.v) : IsJSON(x.v[i].v)
      [] OTHER -> FALSE

\* a value with an element JSON cannot represent somewhere in it
RECURSIVE HasForeign(_)
HasForeign(x) ==
    CASE x.t \in {"str", "int", "bool", "NoneType"} -> FALSE
      [] x.t = "list" -> \E i \in 1..Len(x.v) : HasForeign(x.v[i])
      [] x.t = "dict" -> \E i \in 1..Len(x.v) : HasForeign(x.v[i].v)
      [] OTHER -> TRUE

\* the values of a decoded value, containers and scalars alike
RECURSIVE CountValues(_), CountItems(_), CountEntries(_)
CountValues(x) ==
    CASE x.t = "list" -> 1 + CountItems(x.v)
      [] x.t = "dict" -> 1 + CountEntries(x.v)
      [] OTHER -> 1

CountItems(items) ==
    IF items = <<>> THEN 0 ELSE CountValues(Head(items)) + CountItems(Tail(items))

CountEntries(entries) ==
    IF entries = <<>> THEN 0
    ELSE CountValues(Head(entries).v) + CountEntries(Tail(entries))

\* the keys that lead from the top proxy down to self
RECURSIVE PathOf(_, _)
PathOf(h, self) ==
    IF h[self].parent = Databag THEN <<>>
    ELSE Append(PathOf(h, h[self].parent), h[self].parent_key)

BagKeyOf(h, self) == h[TopOf(h, self)].parent_key.v

\* one mutation applied to a plain mapping or sequence
Edit(x, op, key, value) ==
    IF x.t = "dict"
    THEN (IF op = "set" THEN PyDict(PutEntry(x.v, key.v, value))
          ELSE PyDict(RemoveAt(x.v, IndexOfKey(x.v, key.v, 1))))
    ELSE (CASE op = "set" -> PyList([x.v EXCEPT ![ListPos(x.v, key.v)] = value])
            [] op = "delete" -> PyList(RemoveAt(x.v, ListPos(x.v, key.v)))
            [] OTHER -> PyList(InsertAt(x.v, InsertPos(x.v, key.v), value)))

\* the plain value x with one mutation applied to the element at path
RECURSIVE EditAt(_, _, _, _, _)
EditAt(x, path, op, key, value) ==
    IF path = <<>> THEN Edit(x, op, key, value)
    ELSE IF x.t = "dict"
    THEN LET i == IndexOfKey(x.v, Head(path).v, 1)
         IN PyDict([x.v EXCEPT ![i].v =
                       EditAt(@, Tail(path), op, key, value)])
    ELSE PyList([x.v EXCEPT ![Head(path).v + 1] =
                    EditAt(@, Tail(path), op, key, value)])

\* what an independent get of the key of self's tree decodes
Stored(bag, h, self) == json_loads(bag[BagKeyOf(h, self)]).val

\* the operation just made was a mutation of a proxy that succeeded
Mutation(rec) == rec.op \in Mutations /\ rec.err = OK

\* C1: one mutation of a node of a tree that get has just built leaves the
\* key holding the value it held with exactly that mutation applied: the
\* slot mutated differs, every other slot of the value is as it was.
C1_OnlyTheMutatedSlotDiffers ==
    [][(/\ Mutation(last')
        /\ TopOf(heap, last'.node) \in fresh
        /\ IsJSON(last'.value))
       => Stored(databag', heap, last'.node) =
            EditAt(Stored(databag, heap, last'.node),
                   PathOf(heap, last'.node),
                   last'.op, last'.key, last'.value)]_vars

\* C2: round trip: get(k) right after a successful set(k, v) of a JSON value
\* on a key that is not reserved succeeds and returns content equal to v.
C2_RoundTrip ==
    [][(/\ last.op = "bag_set" /\ last.err = OK
        /\ last.key.v \notin EXCLUDED_KEYS
        /\ IsJSON(last.value)
        /\ last'.op = "get" /\ last'.key = last.key)
       => (/\ last'.err = OK
           /\ Plain(heap', last'.result) = last.value)]_vars

\* the positions of the sequence s whose element has the content of proxy e
ElementOf(h, s, e) ==
    {q \in 1..Len(h[s].data) :
        /\ h[s].data[q].t = "ref"
        /\ Plain(h, h[s].data[q]) = Plain(h, Ref(e))}

\* the position the insert just made on s put its value at
InsertedAt(h, rec) == InsertPos(Tail(h[rec.node].data), rec.key.v)

\* C3: after insert on a sequence, a mutation made through a reference the
\* caller holds to an element the insert shifted is written to the databag
\* at the element's new position, whatever was done to the element before.
C3_ShiftedElementWritesToNewPosition ==
    [][\A q \in 1..(MaxLen + 1) :
        (/\ last.op = "insert" /\ last.err = OK
         /\ heap[last.node].parent = Databag
         /\ Mutation(last')
         /\ heap[last'.node].parent = last.node
         /\ ElementOf(heap, last.node, last'.node) = {q}
         /\ q > InsertedAt(heap, last))
        => Stored(databag', heap, last.node) =
             EditAt(Stored(databag, heap, last.node), <<PyInt(q - 1)>>,
                    last'.op, last'.key, last'.value)]_vars

\* the proxies reachable from the top proxies through _data
Reachable(h) == Below(h, {i \in DOMAIN h : h[i].parent = Databag})

\* parent[parent_key] of the proxy n is there and has the content of n
OwnSlot(h, p, n) ==
    /\ h[n].parent = p
    /\ Proxy_getitem(h, p, h[n].parent_key).err = OK
    /\ Plain(h, Proxy_getitem(h, p, h[n].parent_key).val) = Plain(h, Ref(n))

\* C4: after every completed mutation, each proxy reachable from a top proxy
\* through _data identifies its own slot: parent[parent_key] has its content.
C4_ParentKeyIdentifiesSlot ==
    Mutation(last) =>
        \A p \in Reachable(heap) : \A n \in RefsOf(heap[p]) : OwnSlot(heap, p, n)

\* C5: set of a str on a reserved key stores the str verbatim, and get of
\* the key right after returns it.
C5_ReservedStoredVerbatim ==
    [][/\ (/\ last'.op = "bag_set"
           /\ last'.key.v \in EXCLUDED_KEYS
           /\ last'.value.t = "str")
          => (last'.err = OK /\ databag'[last'.key.v] = last'.value.v)
       /\ (/\ last.op = "bag_set" /\ last.key.v \in EXCLUDED_KEYS
           /\ last.value.t = "str"
           /\ last'.op = "get" /\ last'.key = last.key)
          => (last'.err = OK /\ last'.result = last.value)]_vars

\* C6: set of a value that is not a str on a reserved key raises TypeError
\* and leaves every key of the databag as it was.
C6_ReservedRejectsNonStr ==
    [][(/\ last'.op = "bag_set"
        /\ last'.key.v \in EXCLUDED_KEYS
        /\ last'.value.t # "str")
       => (last'.err = "TypeError" /\ databag' = databag)]_vars

C6_Witness ==
    /\ last.op = "bag_set"
    /\ last.key.v \in EXCLUDED_KEYS
    /\ last.value.t # "str"
    /\ last.err = "TypeError"
    /\ last.writes = 0

\* C7: storing a value with an element JSON cannot represent anywhere in it
\* raises TypeError without a databag write, on the databag and on a proxy.
C7_ForeignValueRejectedBeforeWrite ==
    [][(/\ last'.op \in {"bag_set", "set", "insert"}
        /\ HasForeign(last'.value))
       => (/\ last'.err = "TypeError"
           /\ last'.writes = 0
           /\ databag' = databag)]_vars

\* x is what the builder owes for the decoded value d: d itself for a
\* scalar, a proxy of the same kind and slots for a mapping or a sequence
RECURSIVE Mirrors(_, _, _)
Mirrors(h, x, d) ==
    CASE d.t = "dict" ->
            /\ x.t = "ref"
            /\ h[x.v].kind = "mapping"
            /\ Len(h[x.v].data) = Len(d.v)
            /\ \A i \in 1..Len(d.v) :
                  /\ h[x.v].data[i].k = d.v[i].k
                  /\ Mirrors(h, h[x.v].data[i].v, d.v[i].v)
      [] d.t = "list" ->
            /\ x.t = "ref"
            /\ h[x.v].kind = "sequence"
            /\ Len(h[x.v].data) = Len(d.v)
            /\ \A i \in 1..Len(d.v) : Mirrors(h, h[x.v].data[i], d.v[i])
      [] OTHER -> x = d

\* C8: in the tree get builds, scalars are the decoded scalars themselves
\* and the only proxies are those of the decoded mappings and sequences.
C8_ScalarsNeverWrapped ==
    (/\ last.op = "get" /\ last.err = OK
     /\ last.key.v \notin EXCLUDED_KEYS)
    => Mirrors(heap, last.result, json_loads(databag[last.key.v]).val)

\* C9: get and every mutation of a proxy complete: the build makes one step
\* for each value of the structure, never exhausts the interpreter's stack,
\* and the operation makes at most one databag write.
C9_OperationsTerminate ==
    (last.op \in {"get"} \cup Mutations)
    => (/\ last.err # "RecursionError"
        /\ last.writes <= 1
        /\ (last.op = "get" /\ last.err = OK /\ last.key.v \notin EXCLUDED_KEYS)
           => last.calls = CountValues(json_loads(databag[last.key.v]).val))

\* C10: the builder raises TypeError exactly for the values with an element
\* that is no mapping, list, str, number, bool or None.
C10_ClassifierRejectsOtherTypes ==
    (last.op \in {"set", "insert"})
    => ((last.err = "TypeError") <=> HasForeign(last.value))

\* the proxies of the tree whose top proxy is top: those that report to it
TreeOf(h, top) == {i \in DOMAIN h : TopOf(h, i) = top}

\* json.dumps of the top proxy of the tree of self
Serialized(h, self) == json_dumps(h, Ref(TopOf(h, self))).text

\* C11: two reads of a key give two unrelated trees: a mutation through one
\* tree leaves every proxy of every other tree as it was, and after each
\* successful mutation the key holds the serialization of the tree mutated.
C11_TreesUnrelatedLastWriteWins ==
    [][(last'.op \in Mutations)
       => (/\ \A i \in DOMAIN heap :
                 TopOf(heap, i) # TopOf(heap, last'.node)
                 => (i \in DOMAIN heap' /\ heap'[i] = heap[i])
           /\ Mutation(last')
              => databag'[BagKeyOf(heap, last'.node)] =
                    Serialized(heap', last'.node))]_vars

\* two trees of one key, each mutated once, the second mutation the last
C11_Witness ==
    /\ Mutation(last)
    /\ ops = 2
    /\ \E a \in held, b \in held :
          /\ a # b
          /\ heap[a].parent = Databag /\ heap[b].parent = Databag
          /\ heap[a].parent_key = heap[b].parent_key
          /\ TopOf(heap, last.node) = b
          /\ Plain(heap, Ref(a)) =
                PyList(<<PyList(<<PyInt(1)>>), PyList(<<PyInt(2)>>), PyInt(5)>>)
          /\ Plain(heap, Ref(b)) =
                PyList(<<PyInt(5), PyList(<<PyInt(1)>>), PyList(<<PyInt(2)>>)>>)
          /\ databag[heap[b].parent_key.v] = Serialized(heap, b)

\* the slots of the proxy p that hold the proxy c itself
SlotsOf(h, p, c) ==
    {q \in 1..Len(h[p].data) : SlotValue(h[p], q) = Ref(c)}

\* C12: a successful mutation of the node n changes the _data of n and, in
\* each ancestor, the slot that holds the node below it on the way to n: the
\* _data of every proxy off that chain and every other slot of an ancestor
\* are as they were.
C12_OnlyTheChainChanges ==
    [][Mutation(last')
       => (/\ \A i \in DOMAIN heap \ Chain(heap, last'.node) :
                 i \in DOMAIN heap' => heap'[i].data = heap[i].data
           /\ \A c \in Chain(heap, last'.node) :
                 (/\ heap[c].parent # Databag
                  /\ SlotsOf(heap, heap[c].parent, c) # {})
                 => (/\ Len(heap'[heap[c].parent].data) =
                           Len(heap[heap[c].parent].data)
                     /\ \A q \in 1..Len(heap[heap[c].parent].data) :
                           q \notin SlotsOf(heap, heap[c].parent, c)
                           => heap'[heap[c].parent].data[q] =
                                 heap[heap[c].parent].data[q]))]_vars

\* C13: building a tree is not a mutation: get makes no databag write and
\* leaves every key of the databag as it was, however deep the value is.
C13_GetWritesNothing ==
    [][(last'.op = "get") => (last'.writes = 0 /\ databag' = databag)]_vars

\* get has built a tree with proxies inside proxies
C13_Witness ==
    /\ last.op = "get" /\ last.err = OK
    /\ last.result.t = "ref"
    /\ Nesting(Plain(heap, last.result)) >= 2
    /\ last.calls >= 3
    /\ last.writes = 0

\* the objects above self, from its parent up to the databag
RECURSIVE Ancestors(_, _)
Ancestors(h, self) ==
    IF h[self].parent = Databag THEN <<Databag>>
    ELSE <<h[self].parent>> \o Ancestors(h, h[self].parent)

\* C14: a successful mutation of a proxy notifies each of its ancestors
\* once, from its parent up to the top proxy, and ends in one databag write;
\* the write is to the key of the tree and every other key is as it was.
C14_EachAncestorNotifiedOnce ==
    [][Mutation(last')
       => (/\ last'.chain = Ancestors(heap, last'.node)
           /\ last'.writes = 1
           /\ DOMAIN databag' = DOMAIN databag \cup {BagKeyOf(heap, last'.node)}
           /\ \A k \in DOMAIN databag \ {BagKeyOf(heap, last'.node)} :
                 databag'[k] = databag[k])]_vars

\* a proxy with two proxies above it has been mutated
C14_Witness ==
    /\ Mutation(last)
    /\ Level(heap, last.node) = 3
    /\ Len(last.chain) = 3
    /\ last.writes = 1

\* the value found in the plain value x by following the keys of path
RECURSIVE ValueAt(_, _)
ValueAt(x, path) ==
    IF path = <<>> THEN x
    ELSE IF x.t = "dict" /\ Head(path).t = "str" /\ HasKey(x.v, Head(path).v)
    THEN ValueAt(x.v[IndexOfKey(x.v, Head(path).v, 1)].v, Tail(path))
    ELSE IF x.t = "list" /\ Head(path).t = "int"
            /\ ListPos(x.v, Head(path).v) # 0
    THEN ValueAt(x.v[ListPos(x.v, Head(path).v)], Tail(path))
    ELSE PyObject

\* the request is one the proxy self can serve: the key is there when the
\* operation needs it
ValidOn(h, self, op, key) ==
    \/ op = "insert"
    \/ op = "set" /\ h[self].kind = "mapping"
    \/ Proxy_getitem(h, self, key).err = OK

\* the proxy self is in the _data of its tree: the top proxy leads to it
Attached(h, self) == self \in Below(h, {TopOf(h, self)})

\* C15: a mapping or sequence stored in a proxy by set or insert is a live
\* sub-tree: while it is in the tree, a later mutation of the proxy in that
\* slot, or of a proxy inside it, succeeds and makes one databag write,
\* after which the key holds the new content of the proxy mutated at the
\* place of that proxy.
C15_InsertedValueIsLive ==
    [][(/\ last'.op \in Mutations
        /\ last'.node \in planted
        /\ Attached(heap, last'.node)
        /\ IsJSON(last'.value)
        /\ ValidOn(heap, last'.node, last'.op, last'.key))
       => (/\ last'.err = OK
           /\ last'.writes = 1
           /\ ValueAt(Stored(databag', heap, last'.node),
                      PathOf(heap, last'.node)) =
                 Plain(heap', Ref(last'.node)))]_vars

\* C16: a set or insert on a proxy whose value fails classification changes
\* nothing: the _data, _parent and _parent_key of every proxy and every key
\* of the databag are as before the call, and no databag write is made.
C16_ClassificationFailureChangesNothing ==
    [][(last'.op \in {"set", "insert"} /\ last'.err = "TypeError")
       => (/\ heap' = heap
           /\ databag' = databag
           /\ last'.writes = 0
           /\ last'.chain = <<>>)]_vars

\* an insert on a nested proxy has failed on an element inside its value
C16_Witness ==
    /\ last.op = "insert"
    /\ last.err = "TypeError"
    /\ last.value = PyList(<<PyObject>>)
    /\ Level(heap, last.node) = 2
    /\ last.writes = 0

\* C17: delete of a key a mapping proxy does not have raises KeyError, and
\* delete of an index out of the range of a sequence proxy raises
\* IndexError; the parent is not notified, and every proxy and every key of
\* the databag are as before the call.
C17_FailedDeleteChangesNothing ==
    [][(/\ last'.op = "delete"
        /\ ~ValidOn(heap, last'.node, "delete", last'.key))
       => (/\ last'.err = (IF heap[last'.node].kind = "mapping"
                           THEN "KeyError" ELSE "IndexError")
           /\ last'.chain = <<>>
           /\ last'.writes = 0
           /\ heap' = heap
           /\ databag' = databag)]_vars

\* delete of an index out of range has failed on a nested sequence
C17_Witness ==
    /\ last.op = "delete"
    /\ last.err = "IndexError"
    /\ heap[last.node].kind = "sequence"
    /\ Level(heap, last.node) = 2
    /\ ListPos(heap[last.node].data, last.key.v) = 0
    /\ last.chain = <<>>
    /\ last.writes = 0

\* C18: after every successful mutation made through a proxy of a tree, the
\* top proxy, a nested proxy or a reference obtained before other mutations,
\* the key of the tree holds the JSON text of the content of the top proxy.
C18_StoreIsSerializedRoot ==
    [][Mutation(last')
       => (/\ BagKeyOf(heap, last'.node) \in DOMAIN databag'
           /\ databag'[BagKeyOf(heap, last'.node)] =
                 json_dumps(<<>>, Plain(heap', Ref(TopOf(heap, last'.node)))).text
           /\ json_loads(databag'[BagKeyOf(heap, last'.node)]).err = OK
           /\ json_loads(databag'[BagKeyOf(heap, last'.node)]).val =
                 Plain(heap', Ref(TopOf(heap, last'.node))))]_vars

\* three mutations have succeeded, two through the top proxy and then one
\* through a reference to a nested proxy obtained before them
C18_Witness ==
    /\ Mutation(last)
    /\ ops = 3
    /\ Level(heap, last.node) = 2
    /\ Plain(heap, Ref(TopOf(heap, last.node))) =
          PyList(<<PyList(<<PyInt(3)>>), PyList(<<PyList(<<PyInt(3)>>)>>),
                   PyInt(5)>>)
    /\ databag[BagKeyOf(heap, last.node)] = Serialized(heap, last.node)

\* what a lookup of parent[parent_key] of the proxy self returns
Current(h, self) == Proxy_getitem(h, h[self].parent, h[self].parent_key)

\* the proxy c is what a lookup of the slot of the proxy n has returned since
\* n notified its parent, and the mutation rec has been made through c
LookedUpAndMutated(built, rec, n, c) ==
    /\ Mutation(rec) /\ rec.node = c
    /\ <<n, c>> \in built

\* C19: no mutation is lost: a reference held to a nested proxy n and the
\* proxy a new lookup of its slot returns are one logical node, so when a
\* mutation through the proxy looked up is followed by a mutation through
\* n, the slot and the databag hold the effect of both: the content the
\* slot had, with the mutation through n applied to it.
C19_HeldReferenceAndLookupAreOneNode ==
    [][(/\ Mutation(last')
        /\ LookedUpAndMutated(copies, last, last'.node, last.node)
        /\ Current(heap, last'.node).err = OK
        /\ Current(heap, last'.node).val.t = "ref"
        /\ ValidOn(heap, Current(heap, last'.node).val.v,
                   last'.op, last'.key))
       => (/\ Plain(heap', Current(heap', last'.node).val) =
                Edit(Plain(heap, Current(heap, last'.node).val),
                     last'.op, last'.key, last'.value)
           /\ ValueAt(Stored(databag', heap, last'.node),
                      PathOf(heap, last'.node)) =
                Edit(Plain(heap, Current(heap, last'.node).val),
                     last'.op, last'.key, last'.value))]_vars

====
